---- MODULE Spec2Model ----
(***************************************************************************)
(* Neurivox: the step-chaining automation executor                         *)
(* (components/AutomationActions.tsx), the debug event bus                *)
(* (utils/eventEmitter.ts), App's log buffer (App.tsx) and the log viewer  *)
(* (components/DebuggingTools.tsx).                                        *)
(*                                                                         *)
(* JavaScript strings are modelled as sequences of one-character strings,  *)
(* so that trim, startsWith, split and substring are computed as the code  *)
(* computes them.  React state is modelled as plain variables: a setState  *)
(* call is an assignment.                                                   *)
(***************************************************************************)
EXTENDS Integers, Sequences, FiniteSets, TLC

VARIABLES
    steps,                  \* useState<AutomationStep[]>([])
    initialAutomationInput, \* useState('')
    automationOutput,       \* useState('')
    isLoading,              \* useState(false)
    error,                  \* useState<string | null>(null); <<>> is null
    isApiKeyMissing,        \* useState(false)
    envKey,                 \* process.env.API_KEY is set
    lsKey,                  \* localStorage holds 'apiKey_gemini'
    runs,                   \* the runAutomation invocations, by run id
    nStarted,               \* number of handleRunAutomation calls made
    debugLogs,              \* App's useState<DebugLogEntry[]>([]): the entries
                            \* its log sink holds, in the order it was handed them
    onLogDebug,             \* the onLogDebug prop: the function the runs log to
    listeners,              \* EventEmitter.listeners: its own keys and their arrays
    stack,                  \* the emit calls in progress, innermost last
    unsubs,                 \* the unsubscribe functions on() has returned,
                            \* each with whether it has been invoked
    emits,                  \* the latest emit call, with what was registered then
    invocations,            \* the listener invocations of that emit, in order
    thrown,                 \* the first EventEmitter call that threw to its caller
    now,                    \* Date.now(), in milliseconds
    viewer                  \* the DebuggingTools component while it is mounted

execVars == <<steps, initialAutomationInput, automationOutput, isLoading, error,
              isApiKeyMissing, envKey, lsKey, runs, nStarted, debugLogs,
              onLogDebug>>

busVars == <<listeners, stack, unsubs, emits, invocations, thrown>>

appVars == <<now, viewer>>

vars == <<execVars, busVars, appVars>>

-----------------------------------------------------------------------------
(* Bounds of the model *)

\* handleRunAutomation calls explored in one behaviour
MaxRuns == 1

\* handleRunAutomation calls explored in one behaviour of ConcurrentSpec and
\* of RetrySpec
MaxConcurrentRuns == 2

\* addStep refuses a fourth step
MaxSteps == 3

\* the completion log keeps the first PreviewLen characters of the output
PreviewLen == 100

\* the milliseconds that pass in one behaviour of ClockSpec
MaxNow == 3

\* the clicks on an action button in one behaviour of LogViewerSpec
MaxClicks == 52

\* the number of entries App's log buffer keeps: slice(-50)
LogBufferSize == 50

-----------------------------------------------------------------------------
(* Strings *)

Whitespace == {" ", "\n"}

RECURSIVE TrimStart(_)
TrimStart(s) ==
    IF s # <<>> /\ Head(s) \in Whitespace THEN TrimStart(Tail(s)) ELSE s

RECURSIVE TrimEnd(_)
TrimEnd(s) ==
    IF s # <<>> /\ s[Len(s)] \in Whitespace
    THEN TrimEnd(SubSeq(s, 1, Len(s) - 1))
    ELSE s

\* String.prototype.trim
Trim(s) == TrimEnd(TrimStart(s))

\* String.prototype.startsWith
StartsWith(s, p) == Len(s) >= Len(p) /\ SubSeq(s, 1, Len(p)) = p

\* String.prototype.substring(0, n)
Substring0(s, n) == SubSeq(s, 1, IF Len(s) < n THEN Len(s) ELSE n)

\* index of the first occurrence of character c in s, 0 when there is none
RECURSIVE IndexFrom(_, _, _)
IndexFrom(s, c, k) ==
    IF k > Len(s) THEN 0
    ELSE IF s[k] = c THEN k
    ELSE IndexFrom(s, c, k + 1)

IndexOf(s, c) == IndexFrom(s, c, 1)

\* s.split(c)[0]
SplitFirst(s, c) ==
    IF IndexOf(s, c) = 0 THEN s ELSE SubSeq(s, 1, IndexOf(s, c) - 1)

\* s.split(c)[1]; <<"undefined">> stands for the missing element
SplitSecond(s, c) ==
    IF IndexOf(s, c) = 0 THEN <<"undefined">>
    ELSE SplitFirst(SubSeq(s, IndexOf(s, c) + 1, Len(s)), c)

ImageMarker == <<"d", "a", "t", "a", ":", "i", "m", "a", "g", "e", "/">>

EmptyStr == <<>>
BlankStr == <<" ", "\n">>
Txt == <<"h", "i">>
PaddedTxt == <<" ", "h", "i", "\n">>
Img == ImageMarker \o <<"p", "n", "g", ";", "b", "6", "4", ",", "Q">>
PaddedImg == <<" ">> \o Img

\* the values the user may type into the initial-input textarea
InputValues == {EmptyStr, BlankStr, PaddedTxt, Img}

\* the texts the hosted model may answer with
ModelTexts == {PaddedTxt, PaddedImg}

-----------------------------------------------------------------------------
(* The action catalogue (constants.ts) *)

\* WORKSPACES.flatMap(ws => ws.availableActions): the ids that resolve
allAvailableActions == {"summarize", "social-commenter", "vision-integration"}

\* the values of the step's <select>: the placeholder '' and the actions
SelectValues == {""} \cup allAvailableActions

\* action.name
ActionName(id) ==
    CASE id = "summarize" -> "Summariser"
      [] id = "social-commenter" -> "Social Media Commenter"
      [] id = "vision-integration" -> "Vision Integration (OCR + Image Understanding)"
      [] OTHER -> "undefined"

\* `${i + 1}` for the 0-based loop index i
StepNo(i) == <<"1", "2", "3", "4", "5", "6", "7", "8", "9">>[i + 1]

-----------------------------------------------------------------------------
(* Messages: a message is the sequence of the parts its template joins *)

NoError == <<>>

EmptyPipelineMsg == <<"Please add at least one step to the automation.">>

MissingInputMsg == <<"Please provide initial input for the automation.">>

ApiKeyPhrase == "API Key is not configured"

\* the text runAutomation displays for missing credentials
ApiKeyMsg ==
    <<ApiKeyPhrase, ". Please ensure your API key is set in the environment.">>

\* the Error getGeminiClient throws
GeminiKeyMsg ==
    <<"Gemini ", ApiKeyPhrase,
      ". Please ensure your API key is set in the environment or in the API Configurator.">>

InvalidActionMsg(actionId, i) ==
    <<"Invalid action ID: ", actionId, " at step ", StepNo(i)>>

VisionInputMsg ==
    <<"Vision Integration requires an image input (base64 data URL). Current input is not an image.">>

TextActionMsg(name) ==
    <<"Text-based action '", name, "' cannot process image input from previous step.">>

GenerateContentMsg(cause) == <<"Failed to generate content: ", cause>>

GenerateImageMsg(cause) == <<"Failed to generate image: ", cause>>

UndefinedTrimMsg == <<"Cannot read properties of undefined (reading 'trim')">>

\* err.message.includes("API Key is not configured")
IncludesApiKeyPhrase(msg) == \E k \in 1..Len(msg) : msg[k] = ApiKeyPhrase

\* setError(`Failed to run automation: ${err.message}`)
FailedToRunMsg(msg) == <<"Failed to run automation: ">> \o msg

\* the causes a rejected network call may carry
Causes == {"timeout"}

-----------------------------------------------------------------------------
(* Log entries.  An id is a template string that ends in a reading of      *)
(* Date.now(): it is kept as the prefix and the reading.                   *)

LogEntry(id, level, message, details) ==
    [id |-> id, level |-> level, message |-> message, details |-> details]

\* `${prefix}${Date.now()}` evaluated when the clock reads t
DebugId(prefix, t) == [prefix |-> prefix, at |-> t]

NoDebugId == DebugId("", 0)

\* array.slice(-n): the last n elements, all of them when there are fewer
SliceLast(array, n) ==
    IF Len(array) > n THEN SubSeq(array, Len(array) - n + 1, Len(array)) ELSE array

\* array.slice(0, n): the first n elements
SliceFirst(array, n) ==
    IF Len(array) > n THEN SubSeq(array, 1, n) ELSE array

\* a sink that keeps the oldest entries once it is full
HandleLogDebugKeepsOldest(prev, entry) == SliceFirst(Append(prev, entry), LogBufferSize)

\* App.handleLogDebug: setDebugLogs(prev => [...prev, entry].slice(-50))
handleLogDebug(prev, entry) == SliceLast(Append(prev, entry), LogBufferSize)

\* the sink called once for each of `entries`, in order
RECURSIVE LogAll(_, _)
LogAll(prev, entries) ==
    IF entries = <<>>
    THEN prev
    ELSE LogAll(handleLogDebug(prev, Head(entries)), Tail(entries))

\* a preview that marks an output of exactly the preview length as cut
PreviewMarksAtLimit(stepOutput) ==
    Substring0(stepOutput, PreviewLen)
        \o (IF Len(stepOutput) >= PreviewLen THEN <<".", ".", ".">> ELSE <<>>)

\* details.output of the "Step completed" entry
Preview(stepOutput) ==
    Substring0(stepOutput, PreviewLen)
        \o (IF Len(stepOutput) > PreviewLen THEN <<".", ".", ".">> ELSE <<>>)

AutomationLabel == <<"Untitled Automation">>

-----------------------------------------------------------------------------
(* runAutomation *)

RunIds ==
    1..(IF MaxRuns > MaxConcurrentRuns THEN MaxRuns ELSE MaxConcurrentRuns)

\* a runAutomation invocation that has not been made yet.  shown holds the
\* value the run passed to setAutomationOutput after its loop, errorAt the
\* number of entries the sink had been handed when the run called setError,
\* debugId the run's automationDebugId
IdleRun ==
    [pc |-> "idle", steps |-> <<>>, input |-> <<>>, i |-> 0,
     currentInput |-> <<>>, isInputImage |-> FALSE, calls |-> <<>>,
     credentials |-> FALSE, result |-> "none", err |-> <<>>,
     shown |-> <<>>, errorAt |-> 0, debugId |-> NoDebugId]

\* what the capability of a step is asked
VisionRequest(currentInput) ==
    [fn |-> "generateImages",
     prompt |-> <<"Describe this image in detail.">>,
     mimeType |-> SplitSecond(SplitFirst(currentInput, ";"), ":"),
     data |-> SplitSecond(currentInput, ",")]

SocialRequest(currentInput, emojiMode) ==
    [fn |-> "generateTextContent",
     prompt |-> IF emojiMode
                THEN <<"emoji comment on post: ">> \o currentInput
                ELSE <<"comment on post: ">> \o currentInput,
     mimeType |-> <<>>, data |-> <<>>]

TextRequest(currentInput) ==
    [fn |-> "generateTextContent", prompt |-> currentInput,
     mimeType |-> <<>>, data |-> <<>>]

\* getGeminiClient finds a key: localStorage 'apiKey_gemini' or process.env.API_KEY
HasGeminiKey == lsKey \/ envKey

\* a runAutomation that makes no upfront check of the key
HasEnvKeyUnchecked == TRUE

\* runAutomation's own check of process.env.API_KEY
HasEnvKey == envKey

\* what the code reaches when it runs on from some point: the await of a
\* capability call, a throw into the catch block, or the end of the loop
Await(run, logs) == [kind |-> "await", run |-> run, logs |-> logs, msg |-> <<>>]

Throw(run, logs, msg) == [kind |-> "throw", run |-> run, logs |-> logs, msg |-> msg]

Finish(run, logs) == [kind |-> "finish", run |-> run, logs |-> logs, msg |-> <<>>]

\* a call that is not awaited: the capability of the following step is
\* invoked while this one is pending
CallCapabilityNotAwaited(run, logs, request) ==
    LET call(i) == [step |-> i, actionId |-> run.steps[i + 1].actionId,
                    payload |-> run.currentInput, request |-> request,
                    status |-> "pending", output |-> <<>>,
                    debugId |-> DebugId("text-gen-", now)]
    IN  Await([run EXCEPT
                 !.pc = "await",
                 !.calls = IF run.i + 1 < Len(run.steps)
                           THEN @ \o <<call(run.i), call(run.i + 1)>>
                           ELSE Append(@, call(run.i))],
              logs)

\* the call of generateTextContent / generateImages, up to its network await
CallCapability(run, logs, request) ==
    IF ~HasGeminiKey
    THEN Throw(run, logs, GeminiKeyMsg)
    ELSE Await([run EXCEPT
                  !.pc = "await",
                  !.calls = Append(@, [step |-> run.i,
                                       actionId |-> run.steps[run.i + 1].actionId,
                                       payload |-> run.currentInput,
                                       request |-> request,
                                       status |-> "pending",
                                       output |-> <<>>,
                                       debugId |-> DebugId("text-gen-", now)])],
               IF request.fn = "generateTextContent"
               THEN Append(logs, LogEntry(DebugId("text-gen-", now), "api_call",
                                          <<"Calling generateContent for model: ", "gemini-2.5-flash">>,
                                          request.prompt))
               ELSE logs)

\* the guard of the generic branch: a text action refuses an image payload
TextActionRefuses(run) == run.isInputImage

\* the guard of the vision branch: it refuses a payload that is no image
VisionRefuses(run) == ~StartsWith(run.currentInput, ImageMarker)

\* a lookup that lets an unknown id fall through to the generic branch
ResolvesAnything(actionId) == TRUE

\* allAvailableActions.find(a => a.id === step.actionId) finds an action
Resolves(actionId) == actionId \in allAvailableActions

\* one iteration of the loop, from its top to the await of its capability
EnterStep(run, logs) ==
    LET step == run.steps[run.i + 1]
        id == step.actionId
        withExec == Append(logs,
                       LogEntry(run.debugId, "info",
                                <<"Executing step ", StepNo(run.i), ": ", ActionName(id)>>,
                                run.currentInput))
    IN  IF ~Resolves(id)
        THEN Throw(run, logs, InvalidActionMsg(id, run.i))
        ELSE IF id = "vision-integration"
        THEN IF VisionRefuses(run)
             THEN Throw(run, withExec, VisionInputMsg)
             ELSE CallCapability(run, withExec, VisionRequest(run.currentInput))
        ELSE IF id = "social-commenter"
        THEN CallCapability(run, withExec,
                            SocialRequest(run.currentInput, step.emojiMode))
        ELSE IF TextActionRefuses(run)
             THEN Throw(run, withExec, TextActionMsg(ActionName(id)))
             ELSE CallCapability(run, withExec, TextRequest(run.currentInput))

\* the for loop, entered at index run.i
Loop(run, logs) ==
    IF run.i < Len(run.steps) THEN EnterStep(run, logs) ELSE Finish(run, logs)

\* a step that appends its output to its input instead of replacing it
NextInputAppends(currentInput, stepOutput) == currentInput \o stepOutput

\* the payload the next iteration receives: currentInput = stepOutput
NextInput(currentInput, stepOutput) == stepOutput

\* a loop that never reclassifies the payload as an image
NextIsImageNever(stepOutput) == FALSE

\* isInputImage after a step: set false by the branch, true on the marker
NextIsImage(stepOutput) == StartsWith(stepOutput, ImageMarker)

\* the code after a capability call that resolved with text
AfterStep(run, logs, stepOutput) ==
    Loop([run EXCEPT
            !.pc = "running",
            !.calls[Len(run.calls)].status = "ok",
            !.calls[Len(run.calls)].output = stepOutput,
            !.currentInput = NextInput(run.currentInput, stepOutput),
            !.isInputImage = NextIsImage(stepOutput),
            !.i = @ + 1],
         Append(logs, LogEntry(run.debugId, "info",
                               <<"Step ", StepNo(run.i), " completed.">>,
                               Preview(stepOutput))))

\* a failure that is swallowed: the loop goes on with the following step
AfterFailureContinues(run, logs, msg) ==
    Loop([run EXCEPT !.pc = "running",
                     !.calls[Len(run.calls)].status = "failed",
                     !.i = @ + 1], logs)

\* the code after a capability call that failed
AfterFailure(run, logs, msg) ==
    Throw([run EXCEPT !.calls[Len(run.calls)].status = "failed"], logs, msg)

\* a success path that displays the input of the run
FinalOutputInitial(run) == run.input

\* setAutomationOutput(currentInput) after the loop
FinalOutput(run) == run.currentInput

\* App's onActionComplete: it hands an entry of its own to handleLogDebug
ActionCompleteEntry ==
    LogEntry(DebugId("action-complete-", now), "info",
             <<"AI action completed. Output length: ", "24", " characters.">>,
             <<"Automation \"\" completed.">>)

\* a catch block that displays the payload the run had reached
CaughtShowsPartial(cs, run, msg) ==
    IF IncludesApiKeyPhrase(msg)
    THEN [cs EXCEPT !.isApiKeyMissing = TRUE, !.error = ApiKeyMsg,
                    !.automationOutput = run.currentInput]
    ELSE [cs EXCEPT !.error = FailedToRunMsg(msg),
                    !.automationOutput = run.currentInput]

\* the setState calls of the catch block
Caught(cs, run, msg) ==
    IF IncludesApiKeyPhrase(msg)
    THEN [cs EXCEPT !.isApiKeyMissing = TRUE, !.error = ApiKeyMsg]
    ELSE [cs EXCEPT !.error = FailedToRunMsg(msg)]

\* the component state the run leaves: the success path, the catch block
\* and the finally block
Component == [automationOutput |-> automationOutput, isLoading |-> isLoading,
              error |-> error, isApiKeyMissing |-> isApiKeyMissing]

\* the entry logged after the loop
FinishedEntry(run) ==
    LogEntry(run.debugId, "info",
             <<"Automation \"">> \o AutomationLabel \o <<"\" finished successfully.">>,
             run.currentInput)

\* a catch block that reports the failure as information
FailedEntryAsInfo(run, msg) ==
    LogEntry(run.debugId, "info",
             <<"Automation \"">> \o AutomationLabel \o <<"\" failed.">>, msg)

\* the entry logged by the catch block
FailedEntry(run, msg) ==
    LogEntry(run.debugId, "error",
             <<"Automation \"">> \o AutomationLabel \o <<"\" failed.">>, msg)

\* the entry logged by the upfront check of the key
KeyMissingEntry(run) ==
    LogEntry(run.debugId, "error", <<"Automation failed: API Key missing.">>, <<>>)

\* a runAutomation without its finally block
FinallySkipped(cs) == cs

\* the finally block: setIsLoading(false)
Finally(cs) == [cs EXCEPT !.isLoading = FALSE]

Conclude(res, cs) ==
    CASE res.kind = "await" ->
           [run |-> res.run, logs |-> res.logs, cs |-> cs]
      [] res.kind = "finish" ->
           [run |-> [res.run EXCEPT !.pc = "done", !.result = "success",
                                    !.shown = <<FinalOutput(res.run)>>],
            logs |-> res.logs \o <<ActionCompleteEntry, FinishedEntry(res.run)>>,
            cs |-> Finally([cs EXCEPT !.automationOutput = FinalOutput(res.run)])]
      [] res.kind = "throw" ->
           [run |-> [res.run EXCEPT !.pc = "done", !.result = "failed",
                                    !.err = res.msg,
                                    !.errorAt = Len(debugLogs) + Len(res.logs)],
            logs |-> Append(res.logs, FailedEntry(res.run, res.msg)),
            cs |-> Finally(Caught(cs, res.run, res.msg))]

\* the variables a run step writes
Commit(r, out) ==
    /\ runs' = [runs EXCEPT ![r] = out.run]
    /\ debugLogs' = LogAll(debugLogs, out.logs)
    /\ automationOutput' = out.cs.automationOutput
    /\ isLoading' = out.cs.isLoading
    /\ error' = out.cs.error
    /\ isApiKeyMissing' = out.cs.isApiKeyMissing

\* the function given as onLogDebug throws on every call
SinkThrows == onLogDebug = "thrower"

\* the Error such a function throws
SinkErrorMsg == <<"log sink failed">>

\* runAutomation from its first line to its first await or its return.  The
\* first log call stands before the try block: what it throws leaves
\* runAutomation, and neither the catch nor the finally block runs
StartRun(r) ==
    LET run0 == [IdleRun EXCEPT !.pc = "running", !.steps = steps,
                                !.input = initialAutomationInput,
                                !.credentials = HasGeminiKey,
                                !.currentInput = initialAutomationInput,
                                !.debugId = DebugId("automation-", now)]
        cs0 == [Component EXCEPT !.isLoading = TRUE, !.error = NoError,
                                 !.automationOutput = <<>>]
        startLog == LogEntry(run0.debugId, "info",
                             <<"Starting automation: ">> \o AutomationLabel,
                             initialAutomationInput)
    IN  IF SinkThrows
        THEN Commit(r, [run |-> [run0 EXCEPT !.pc = "done", !.result = "threw",
                                             !.err = SinkErrorMsg],
                        logs |-> <<startLog>>,
                        cs |-> cs0])
        ELSE IF ~HasEnvKey
        THEN Commit(r, [run |-> [run0 EXCEPT !.pc = "done", !.result = "failed",
                                             !.err = ApiKeyMsg,
                                             !.errorAt = Len(debugLogs) + 1],
                        logs |-> <<startLog, KeyMissingEntry(run0)>>,
                        cs |-> Finally([cs0 EXCEPT !.isApiKeyMissing = TRUE,
                                                   !.error = ApiKeyMsg])])
        ELSE Commit(r, Conclude(Loop(run0, <<startLog>>),
                                [cs0 EXCEPT !.isApiKeyMissing = FALSE]))

\* a validation failure of handleRunAutomation: only setError is called
Reject(r, msg) ==
    /\ error' = msg
    /\ runs' = [runs EXCEPT ![r] = [IdleRun EXCEPT !.pc = "done",
                                                   !.result = "rejected",
                                                   !.steps = steps,
                                                   !.input = initialAutomationInput,
                                                   !.credentials = HasGeminiKey,
                                                   !.err = msg]]
    /\ UNCHANGED <<automationOutput, isLoading, isApiKeyMissing, debugLogs>>

\* a blank test that forgets to trim
IsBlankUntrimmed(s) == s = <<>>

\* !initialAutomationInput.trim()
IsBlank(s) == Trim(s) = <<>>

\* handleRunAutomation, called at most `limit` times in a behaviour.  The
\* handler itself does not look at isLoading
handleRunAutomationWithin(limit) ==
    /\ nStarted < limit
    /\ nStarted' = nStarted + 1
    /\ LET r == nStarted + 1
       IN  IF Len(steps) = 0
           THEN Reject(r, EmptyPipelineMsg)
           ELSE IF IsBlank(initialAutomationInput)
           THEN Reject(r, MissingInputMsg)
           ELSE StartRun(r)
    /\ UNCHANGED <<steps, initialAutomationInput, envKey, lsKey, onLogDebug>>
    /\ UNCHANGED <<busVars, appVars>>

handleRunAutomation == handleRunAutomationWithin(MaxRuns)

\* the network call of run r resolves with a response whose text is `text`
Resolve(r, text) ==
    /\ runs[r].pc = "await"
    /\ LET run == runs[r]
           call == run.calls[Len(run.calls)]
           logs == IF call.request.fn = "generateTextContent"
                   THEN <<LogEntry(call.debugId, "api_response",
                                   <<"generateContent succeeded">>, text)>>
                   ELSE <<>>
       IN  Commit(r, Conclude(AfterStep(run, logs, Trim(text)), Component))
    /\ UNCHANGED <<steps, initialAutomationInput, envKey, lsKey, nStarted,
                   onLogDebug>>
    /\ UNCHANGED <<busVars, appVars>>

\* the network call of run r resolves with a response that has no text
ResolveNoText(r) ==
    /\ runs[r].pc = "await"
    /\ LET run == runs[r]
           call == run.calls[Len(run.calls)]
           logs == IF call.request.fn = "generateTextContent"
                   THEN <<LogEntry(call.debugId, "api_response",
                                   <<"generateContent succeeded">>, <<"undefined">>)>>
                   ELSE <<>>
       IN  Commit(r, Conclude(AfterFailure(run, logs, UndefinedTrimMsg), Component))
    /\ UNCHANGED <<steps, initialAutomationInput, envKey, lsKey, nStarted,
                   onLogDebug>>
    /\ UNCHANGED <<busVars, appVars>>

\* the network call of run r rejects with `cause`
RejectCall(r, cause) ==
    /\ runs[r].pc = "await"
    /\ LET run == runs[r]
           call == run.calls[Len(run.calls)]
       IN  IF call.request.fn = "generateTextContent"
           THEN Commit(r, Conclude(
                    AfterFailure(run,
                                 <<LogEntry(call.debugId, "error",
                                            <<"generateContent failed">>, <<cause>>)>>,
                                 GenerateContentMsg(cause)),
                    Component))
           ELSE Commit(r, Conclude(
                    AfterFailure(run, <<>>, GenerateImageMsg(cause)), Component))
    /\ UNCHANGED <<steps, initialAutomationInput, envKey, lsKey, nStarted,
                   onLogDebug>>
    /\ UNCHANGED <<busVars, appVars>>

-----------------------------------------------------------------------------
(* The builder.  Its controls are disabled while isLoading; the model      *)
(* explores the builder and the key store before the first run is started, *)
(* so every pipeline the builder can hold is run.                          *)

SetupPhase == nStarted = 0

BuilderEnabled == ~isLoading /\ SetupPhase

NewStep == [actionId |-> "", emojiMode |-> FALSE]

\* an addStep without the cap
addStepUncapped ==
    /\ BuilderEnabled
    /\ steps' = Append(steps, NewStep)
    /\ UNCHANGED <<initialAutomationInput, automationOutput, isLoading, error,
                   isApiKeyMissing, envKey, lsKey, runs, nStarted, debugLogs,
                   onLogDebug>>
    /\ UNCHANGED <<busVars, appVars>>

\* if (steps.length < 3) setSteps([...steps, { actionId: '', options: {} }])
addStep ==
    /\ BuilderEnabled
    /\ steps' = IF Len(steps) < MaxSteps THEN Append(steps, NewStep) ELSE steps
    /\ UNCHANGED <<initialAutomationInput, automationOutput, isLoading, error,
                   isApiKeyMissing, envKey, lsKey, runs, nStarted, debugLogs,
                   onLogDebug>>
    /\ UNCHANGED <<busVars, appVars>>

\* steps.filter((_, i) => i !== index), index 0-based
removeStep(index) ==
    /\ BuilderEnabled
    /\ index \in 0..(Len(steps) - 1)
    /\ steps' = SubSeq(steps, 1, index) \o SubSeq(steps, index + 2, Len(steps))
    /\ UNCHANGED <<initialAutomationInput, automationOutput, isLoading, error,
                   isApiKeyMissing, envKey, lsKey, runs, nStarted, debugLogs,
                   onLogDebug>>
    /\ UNCHANGED <<busVars, appVars>>

\* updateStep(index, 'actionId', value) from the step's <select>
updateStepAction(index, value) ==
    /\ BuilderEnabled
    /\ index \in 0..(Len(steps) - 1)
    /\ steps[index + 1].actionId # value
    /\ steps' = [steps EXCEPT ![index + 1].actionId = value]
    /\ UNCHANGED <<initialAutomationInput, automationOutput, isLoading, error,
                   isApiKeyMissing, envKey, lsKey, runs, nStarted, debugLogs,
                   onLogDebug>>
    /\ UNCHANGED <<busVars, appVars>>

\* updateStep(index, 'options', {...options, emojiMode}) from the checkbox,
\* which is rendered for a social-commenter step only
updateStepEmoji(index, checked) ==
    /\ BuilderEnabled
    /\ index \in 0..(Len(steps) - 1)
    /\ steps[index + 1].actionId = "social-commenter"
    /\ steps[index + 1].emojiMode # checked
    /\ steps' = [steps EXCEPT ![index + 1].emojiMode = checked]
    /\ UNCHANGED <<initialAutomationInput, automationOutput, isLoading, error,
                   isApiKeyMissing, envKey, lsKey, runs, nStarted, debugLogs,
                   onLogDebug>>
    /\ UNCHANGED <<busVars, appVars>>

\* the textarea's onChange, explored while `explored` holds
setInitialAutomationInputWhile(explored, value) ==
    /\ explored
    /\ ~isLoading
    /\ initialAutomationInput # value
    /\ initialAutomationInput' = value
    /\ UNCHANGED <<steps, automationOutput, isLoading, error,
                   isApiKeyMissing, envKey, lsKey, runs, nStarted, debugLogs,
                   onLogDebug>>
    /\ UNCHANGED <<busVars, appVars>>

setInitialAutomationInput(value) == setInitialAutomationInputWhile(SetupPhase, value)

\* ApiConfigurator.handleSaveKey: localStorage.setItem('apiKey_gemini', ...).
\* It is explored where process.env.API_KEY is absent: where it is set,
\* runAutomation and getGeminiClient find a key whether or not one was saved
handleSaveKey ==
    /\ SetupPhase
    /\ ~envKey
    /\ ~lsKey
    /\ lsKey' = TRUE
    /\ UNCHANGED <<steps, initialAutomationInput, automationOutput, isLoading,
                   error, isApiKeyMissing, envKey, runs, nStarted, debugLogs,
                   onLogDebug>>
    /\ UNCHANGED <<busVars, appVars>>

-----------------------------------------------------------------------------
(* utils/eventEmitter.ts.  listeners is a plain object: a name that is not *)
(* an own key is looked up on Object.prototype.  An array is an object: a  *)
(* forEach in progress and listeners[e] may be the same array (on pushes   *)
(* to it in place) until off replaces listeners[e] by a filtered copy.     *)

\* the event names callers use; "constructor" is one any string allows
EventNames == {"debugLog", "uiEvent", "constructor"}

\* the keys every object inherits from Object.prototype
ObjectPrototypeKeys == {"constructor"}

\* the listener functions: what each does when it is invoked for event e
\*   plain:   returns
\*   thrower: throws
\*   remover: calls off(e, plain), returns
\*   adder:   calls on(e, plain), returns
\*   publisher: when handed entryA, calls emit(e, entryB); returns
Handlers == {"plain", "thrower", "remover", "adder"}

\* the entries published
Entries == {"entryA", "entryB"}

\* on() calls explored in one behaviour
MaxRegs == 3

\* on() calls explored in one behaviour of RegistrySpec
MaxSubs == 4

\* this.listeners[eventName]
Lookup(ls, e) ==
    IF e \in ls.keys THEN "array"
    ELSE IF e \in ObjectPrototypeKeys THEN "inherited"
    ELSE "undefined"

\* the bus as one value, so that a listener can call it while emit runs
Bus == [listeners |-> listeners, stack |-> stack, unsubs |-> unsubs,
        emits |-> emits, invocations |-> invocations, thrown |-> thrown]

\* a call on the bus throws a TypeError to its caller
Throws(bs, op, e) == [bs EXCEPT !.thrown = IF @ = <<>> THEN <<op, e>> ELSE @]

\* a push after which a forEach in progress visits the new element too, as
\* a loop that reads arr.length on every round would
PushListenerVisited(bs, e, item) ==
    [bs EXCEPT
       !.listeners.at[e] = Append(@, item),
       !.stack = [k \in 1..Len(bs.stack) |->
                     IF bs.stack[k].e = e /\ bs.stack[k].live
                     THEN [bs.stack[k] EXCEPT !.arr = Append(@, item),
                                              !.len = @ + 1]
                     ELSE bs.stack[k]]]

\* Array.prototype.push on the array listeners[e]: every forEach that
\* iterates this same array sees the element
PushListener(bs, e, item) ==
    [bs EXCEPT
       !.listeners.at[e] = Append(@, item),
       !.stack = [k \in 1..Len(bs.stack) |->
                     IF bs.stack[k].e = e /\ bs.stack[k].live
                     THEN [bs.stack[k] EXCEPT !.arr = Append(@, item)]
                     ELSE bs.stack[k]]]

\* on(eventName, listener); the closure it returns is appended to unsubs
BusOn(bs, e, h) ==
    LET item == [h |-> h, reg |-> Len(bs.unsubs) + 1]
        closure == [e |-> e, h |-> h, called |-> FALSE]
    IN  CASE Lookup(bs.listeners, e) = "inherited" -> Throws(bs, "on", e)
          [] Lookup(bs.listeners, e) = "undefined" ->
               [bs EXCEPT !.listeners.keys = @ \cup {e},
                          !.listeners.at[e] = <<item>>,
                          !.unsubs = Append(@, closure)]
          [] OTHER ->
               [PushListener(bs, e, item) EXCEPT !.unsubs = Append(@, closure)]

\* this.listeners[eventName].filter((l) => l !== listener)
FilterListener(arr, h) == SelectSeq(arr, LAMBDA item : item.h # h)

\* off(eventName, listener): listeners[e] becomes a new array, which no
\* forEach in progress iterates
BusOff(bs, e, h) ==
    CASE Lookup(bs.listeners, e) = "inherited" -> Throws(bs, "off", e)
      [] Lookup(bs.listeners, e) = "undefined" -> bs
      [] OTHER ->
           [bs EXCEPT
              !.listeners.at[e] = FilterListener(@, h),
              !.stack = [k \in 1..Len(bs.stack) |->
                            IF bs.stack[k].e = e
                            THEN [bs.stack[k] EXCEPT !.live = FALSE]
                            ELSE bs.stack[k]]]

\* the registrations held under every name
RegsOf(ls) == UNION {{ls.at[e][k].reg : k \in 1..Len(ls.at[e])} : e \in EventNames}

\* the closure returned by the k-th on(): () => this.off(eventName, listener)
BusUnsubscribe(bs, k) ==
    [BusOff(bs, bs.unsubs[k].e, bs.unsubs[k].h) EXCEPT !.unsubs[k].called = TRUE]

\* emit(eventName, ...args) up to the first listener invocation
BusEmit(bs, e, entry) ==
    LET id == Len(bs.emits) + 1
        look == Lookup(bs.listeners, e)
        arr == IF look = "array" THEN bs.listeners.at[e] ELSE <<>>
        withEmit == [bs EXCEPT !.emits = Append(@, [e |-> e, entry |-> entry,
                                                    regs |-> arr,
                                                    done |-> look = "undefined"])]
    IN  CASE look = "inherited" -> Throws(withEmit, "emit", e)
          [] look = "undefined" -> withEmit
          [] OTHER ->
               [withEmit EXCEPT !.stack = Append(@, [id |-> id, e |-> e,
                                                     entry |-> entry, arr |-> arr,
                                                     len |-> Len(arr), idx |-> 1,
                                                     live |-> TRUE])]

\* a forEach callback without try/catch: the exception ends the emit
ListenerThrewUncaught(bs) ==
    [Throws(bs, "emit", bs.stack[Len(bs.stack)].e) EXCEPT
       !.stack = SubSeq(@, 1, Len(@) - 1),
       !.emits[bs.stack[Len(bs.stack)].id].done = TRUE]

\* catch (e) { console.error(...) }: the forEach goes on
ListenerThrew(bs) == bs

\* what the listener h does when invoked for event e
RunListener(bs, e, h) ==
    CASE h = "thrower" -> ListenerThrew(bs)
      [] h = "remover" -> BusOff(bs, e, "plain")
      [] h = "adder" -> BusOn(bs, e, "plain")
      [] h = "publisher" ->
           IF bs.stack[Len(bs.stack)].entry = "entryA"
           THEN BusEmit(bs, e, "entryB")
           ELSE bs
      [] OTHER -> bs

\* one round of the forEach of the innermost emit: the callback is called
\* with the element at idx, if idx is below the length read at the start
BusDeliver(bs) ==
    LET top == Len(bs.stack)
        f == bs.stack[top]
        item == f.arr[f.idx]
        called == [bs EXCEPT
                     !.stack[top].idx = @ + 1,
                     !.invocations = Append(@, [emit |-> f.id, reg |-> item.reg,
                                                h |-> item.h, entry |-> f.entry])]
    IN  RunListener(called, f.e, item.h)

\* the forEach of the innermost emit is over: emit returns
BusReturn(bs) ==
    [bs EXCEPT !.stack = SubSeq(@, 1, Len(@) - 1),
               !.emits[bs.stack[Len(bs.stack)].id].done = TRUE]

SetBus(bs) ==
    /\ listeners' = bs.listeners
    /\ stack' = bs.stack
    /\ unsubs' = bs.unsubs
    /\ emits' = bs.emits
    /\ invocations' = bs.invocations
    /\ thrown' = bs.thrown

\* the bus as application code finds it when no emit is in progress; the
\* record of the emit that ended before is dropped
Idle == [Bus EXCEPT !.emits = <<>>, !.invocations = <<>>]

\* the calls application code makes on globalEmitter
onWithin(limit, e, h) ==
    /\ stack = <<>>
    /\ Len(unsubs) < limit
    /\ SetBus(BusOn(Idle, e, h))
    /\ UNCHANGED <<execVars, appVars>>

on(e, h) == onWithin(MaxRegs, e, h)

off(e, h) ==
    /\ stack = <<>>
    /\ SetBus(BusOff(Idle, e, h))
    /\ UNCHANGED <<execVars, appVars>>

unsubscribe(k) ==
    /\ stack = <<>>
    /\ k \in 1..Len(unsubs)
    /\ SetBus(BusUnsubscribe(Idle, k))
    /\ UNCHANGED <<execVars, appVars>>

emit(e, entry) ==
    /\ stack = <<>>
    /\ SetBus(BusEmit(Idle, e, entry))
    /\ UNCHANGED <<execVars, appVars>>

\* the steps of an emit in progress; a listener's on() counts for the limit
deliverWithin(limit) ==
    /\ stack # <<>>
    /\ stack[Len(stack)].idx <= stack[Len(stack)].len
    /\ stack[Len(stack)].arr[stack[Len(stack)].idx].h = "adder"
          => Len(unsubs) < limit
    /\ SetBus(BusDeliver(Bus))
    /\ UNCHANGED <<execVars, appVars>>

deliver == deliverWithin(MaxRegs)

return ==
    /\ stack # <<>>
    /\ stack[Len(stack)].idx > stack[Len(stack)].len
    /\ SetBus(BusReturn(Bus))
    /\ UNCHANGED <<execVars, appVars>>

\* the subscriptions explored: every listener under "debugLog" and under
\* "constructor", the plain one under "uiEvent"
Subscriptions ==
    {p \in EventNames \X Handlers : p[1] = "uiEvent" => p[2] = "plain"}

NextBus ==
    \/ \E p \in Subscriptions : on(p[1], p[2])
    \/ \E e \in EventNames, h \in Handlers : off(e, h)
    \/ \E k \in 1..MaxRegs : unsubscribe(k)
    \/ \E e \in EventNames, entry \in Entries : emit(e, entry)
    \/ deliver
    \/ return

-----------------------------------------------------------------------------

\* DebuggingTools is not rendered
Unmounted == [mounted |-> FALSE, debugLogs |-> <<>>, clearedAt |-> -1]

\* the state in which the builder holds `built` and `typed`, the component
\* was given `sink` as onLogDebug, and no run and no bus call was made
InitWith(built, typed, sink) ==
    /\ steps = built
    /\ initialAutomationInput = typed
    /\ onLogDebug = sink
    /\ automationOutput = <<>>
    /\ isLoading = FALSE
    /\ error = NoError
    /\ isApiKeyMissing = FALSE
    /\ envKey \in BOOLEAN
    /\ lsKey = FALSE
    /\ runs = [r \in RunIds |-> IdleRun]
    /\ nStarted = 0
    /\ debugLogs = <<>>
    /\ listeners = [keys |-> {}, at |-> [e \in EventNames |-> <<>>]]
    /\ stack = <<>>
    /\ unsubs = <<>>
    /\ emits = <<>>
    /\ invocations = <<>>
    /\ thrown = <<>>
    /\ now = 0
    /\ viewer = Unmounted

\* the state after construction; App passes its handleLogDebug as onLogDebug
Init == InitWith(<<>>, <<>>, "handleLogDebug")

Next ==
    \/ addStep
    \/ \E index \in 0..(MaxSteps - 1) : removeStep(index)
    \/ \E index \in 0..(MaxSteps - 1), value \in SelectValues :
          updateStepAction(index, value)
    \/ \E index \in 0..(MaxSteps - 1), checked \in BOOLEAN :
          updateStepEmoji(index, checked)
    \/ \E value \in InputValues : setInitialAutomationInput(value)
    \/ handleSaveKey
    \/ handleRunAutomation
    \/ \E r \in RunIds, text \in ModelTexts : Resolve(r, text)
    \/ \E r \in RunIds : ResolveNoText(r)
    \/ \E r \in RunIds, cause \in Causes : RejectCall(r, cause)

Spec == Init /\ [][Next]_vars

\* the component given an onLogDebug that throws on every call: no run gets
\* as far as a capability call, so no call settles
InitThrowingSink == InitWith(<<>>, <<>>, "thrower")

NextThrowingSink ==
    \/ addStep
    \/ \E index \in 0..(MaxSteps - 1) : removeStep(index)
    \/ \E index \in 0..(MaxSteps - 1), value \in SelectValues :
          updateStepAction(index, value)
    \/ \E index \in 0..(MaxSteps - 1), checked \in BOOLEAN :
          updateStepEmoji(index, checked)
    \/ \E value \in InputValues : setInitialAutomationInput(value)
    \/ handleSaveKey
    \/ handleRunAutomation

ThrowingSinkSpec == InitThrowingSink /\ [][NextThrowingSink]_vars

\* two runs in flight at once: the builder holds a pipeline of two text
\* actions and an input (addStep, updateStepAction and
\* setInitialAutomationInput lead there), and handleRunAutomation is called
\* again while the first run awaits a capability call
ConcurrentPipeline ==
    <<[actionId |-> "summarize", emojiMode |-> FALSE],
      [actionId |-> "social-commenter", emojiMode |-> FALSE]>>

InitConcurrent == InitWith(ConcurrentPipeline, PaddedTxt, "handleLogDebug") /\ envKey

NextConcurrent ==
    \/ handleRunAutomationWithin(MaxConcurrentRuns)
    \/ \E r \in RunIds, text \in ModelTexts : Resolve(r, text)
    \/ \E r \in RunIds : ResolveNoText(r)
    \/ \E r \in RunIds, cause \in Causes : RejectCall(r, cause)

ConcurrentSpec == InitConcurrent /\ [][NextConcurrent]_vars

\* the event bus on its own
InitBus == Init /\ envKey

BusSpec == InitBus /\ [][NextBus]_vars

\* the event bus with listeners that publish while they are being delivered to
PublishingHandlers == {"plain", "publisher"}

NextPublish ==
    \/ \E h \in PublishingHandlers : on("debugLog", h)
    \/ \E k \in 1..MaxRegs : unsubscribe(k)
    \/ \E entry \in Entries : emit("debugLog", entry)
    \/ deliver
    \/ return

PublishSpec == InitBus /\ [][NextPublish]_vars

-----------------------------------------------------------------------------
(* Properties of the automation executor *)

\* the run went past validation and the credentials check, into the loop
EnteredLoop(run) ==
    /\ run.pc # "idle"
    /\ run.result # "rejected"
    /\ ~(run.result = "failed" /\ run.err = ApiKeyMsg /\ run.calls = <<>> /\ ~envKey)

\* the loop of the run arrived at the top of iteration i (0-based):
\* the calls of all earlier steps were made and succeeded
ReachedStep(run, i) ==
    /\ EnteredLoop(run)
    /\ i < Len(run.steps)
    /\ Len(run.calls) >= i
    /\ \A k \in 1..i : run.calls[k].step = k - 1 /\ run.calls[k].status = "ok"

IsImagePayload(s) == StartsWith(s, ImageMarker)

\* C1 (fail-fast): once a step of a run has failed (its capability call
\* failed, or the step threw before its call: unknown action, type
\* mismatch), no capability of a later step is invoked in that run: a
\* failed call is the last call of its run, and a failed run holds no call
\* of a step after the failing one and no pending call.
C1_FailFast ==
    \A r \in RunIds :
        LET run == runs[r]
        IN  /\ \A k \in 1..Len(run.calls) :
                  run.calls[k].status = "failed" => k = Len(run.calls)
            /\ run.result = "failed" =>
                  /\ run.pc = "done"
                  /\ \A k \in 1..Len(run.calls) :
                        /\ run.calls[k].step <= run.i
                        /\ run.calls[k].status # "pending"

\* a run of at least two steps whose first step's capability call failed
C1_Witness ==
    \E r \in RunIds :
        /\ Len(runs[r].steps) >= 2
        /\ Len(runs[r].calls) = 1
        /\ runs[r].calls[1].status = "failed"
        /\ runs[r].result = "failed"

\* C2 (ordering): the capability calls of a run are made in array order,
\* one step after the other, and every call but the last one made has
\* settled: the call of step k+1 is never made while that of step k is
\* pending.
C2_Ordering ==
    \A r \in RunIds :
        LET run == runs[r]
        IN  \A k \in 1..Len(run.calls) :
               /\ run.calls[k].step = k - 1
               /\ k < Len(run.calls) => run.calls[k].status # "pending"

\* the second step's call is pending after the first step's call settled
C2_Witness ==
    \E r \in RunIds :
        /\ Len(runs[r].calls) = 2
        /\ runs[r].calls[1].status = "ok"
        /\ runs[r].calls[2].status = "pending"

\* C3 (threading): the payload handed to the capability of the first step
\* is the initial input as typed, and the payload handed to the capability
\* of every later step is the output (stepOutput) of the step before it.
C3_Threading ==
    \A r \in RunIds :
        LET run == runs[r]
        IN  \A k \in 1..Len(run.calls) :
               run.calls[k].payload =
                   IF k = 1 THEN run.input ELSE run.calls[k - 1].output

\* a second step was handed the non-empty output of the first, after the
\* first was handed an input with surrounding whitespace
C3_Witness ==
    \E r \in RunIds :
        /\ Len(runs[r].calls) >= 2
        /\ runs[r].input = PaddedTxt
        /\ runs[r].calls[1].payload = PaddedTxt
        /\ runs[r].calls[1].output = Txt
        /\ runs[r].calls[2].payload = Txt

\* C4 (type compatibility): no text action (social-commenter included) is
\* ever invoked on a payload that is an image, be it the initial input or
\* the output of an earlier step, and vision-integration is never invoked
\* on a payload that is not an image.
C4_TypeCompatibility ==
    \A r \in RunIds :
        \A k \in 1..Len(runs[r].calls) :
           LET call == runs[r].calls[k]
           IN  IF call.actionId = "vision-integration"
               THEN IsImagePayload(call.payload)
               ELSE ~IsImagePayload(call.payload)

\* C5 (validation): a handleRunAutomation call with blank input and at
\* least one step is rejected with the missing-input message, one with no
\* step is rejected with the empty-pipeline message, and in both cases no
\* capability is invoked.
C5_Validation ==
    \A r \in RunIds :
        LET run == runs[r]
        IN  run.pc # "idle" =>
               /\ Len(run.steps) = 0 =>
                     /\ run.result = "rejected"
                     /\ run.err = EmptyPipelineMsg
                     /\ run.calls = <<>>
               /\ (Len(run.steps) > 0 /\ Trim(run.input) = <<>>) =>
                     /\ run.result = "rejected"
                     /\ run.err = MissingInputMsg
                     /\ run.calls = <<>>

\* a whitespace-only input with a resolvable step was rejected
C5_Witness ==
    \E r \in RunIds :
        /\ runs[r].result = "rejected"
        /\ runs[r].input = BlankStr
        /\ Len(runs[r].steps) = 1
        /\ runs[r].steps[1].actionId = "summarize"
        /\ error = MissingInputMsg

\* `${i}` for the 0-based loop index i
IndexNo(i) == <<"0", "1", "2", "3", "4", "5", "6", "7", "8">>[i + 1]

\* C6 as claimed: a run that arrives at a step whose action id does not
\* resolve fails with an error carrying the 0-based index of the step and
\* the action id, and invokes no capability for that step or a later one.
C6_UnknownActionIndex0 ==
    \A r \in RunIds : \A i \in 0..(MaxSteps - 1) :
        LET run == runs[r]
        IN  (ReachedStep(run, i) /\ ~(run.steps[i + 1].actionId \in allAvailableActions)) =>
               /\ run.result = "failed"
               /\ run.err = <<"Invalid action ID: ", run.steps[i + 1].actionId,
                              " at step ", IndexNo(i)>>
               /\ Len(run.calls) = i

\* C6 (amended): a run that arrives at a step whose action id does not
\* resolve fails with an error carrying the 1-based number of the step
\* (1 for the first step) and the action id, and invokes no capability for
\* that step or a later one.
C6_UnknownAction ==
    \A r \in RunIds : \A i \in 0..(MaxSteps - 1) :
        LET run == runs[r]
        IN  (ReachedStep(run, i) /\ ~(run.steps[i + 1].actionId \in allAvailableActions)) =>
               /\ run.result = "failed"
               /\ run.pc = "done"
               /\ run.err = <<"Invalid action ID: ", run.steps[i + 1].actionId,
                              " at step ", StepNo(i)>>
               /\ Len(run.calls) = i

\* the second step of a run has an unknown id, after a first step succeeded
C6_Witness ==
    \E r \in RunIds :
        /\ Len(runs[r].steps) = 3
        /\ runs[r].steps[2].actionId = ""
        /\ Len(runs[r].calls) = 1
        /\ runs[r].calls[1].status = "ok"
        /\ runs[r].err = <<"Invalid action ID: ", "", " at step ", "2">>
        /\ error = FailedToRunMsg(runs[r].err)

\* C7 (credentials): a run triggered (past validation) while no key is
\* configured, neither in the environment nor in localStorage, fails with
\* the credentials-missing error and invokes no capability.
C7_Credentials ==
    \A r \in RunIds :
        LET run == runs[r]
        IN  (run.pc # "idle" /\ run.result # "rejected" /\ ~run.credentials) =>
               /\ run.pc = "done"
               /\ run.result = "failed"
               /\ run.err = ApiKeyMsg
               /\ run.calls = <<>>

\* a run of a resolvable step was triggered without any key and failed
C7_Witness ==
    \E r \in RunIds :
        /\ ~runs[r].credentials
        /\ runs[r].result = "failed"
        /\ Len(runs[r].steps) >= 1
        /\ runs[r].steps[1].actionId = "summarize"
        /\ error = ApiKeyMsg
        /\ isApiKeyMissing

-----------------------------------------------------------------------------
(* Properties of the event bus *)

\* the invocations made by emit call m, in order
InvocationsOf(m) == SelectSeq(invocations, LAMBDA x : x.emit = m)

\* C8 (fan-out with failure isolation): an emit call invokes the listeners
\* that were registered for its event name when it was called, in order,
\* once per registration and with the entry published, and when it has
\* ended every one of them has been invoked, also when some of them threw
\* or changed the registry.
C8_FanOut ==
    \A m \in 1..Len(emits) :
        LET inv == InvocationsOf(m)
            em == emits[m]
        IN  /\ Len(inv) <= Len(em.regs)
            /\ \A j \in 1..Len(inv) :
                  /\ inv[j].reg = em.regs[j].reg
                  /\ inv[j].h = em.regs[j].h
                  /\ inv[j].entry = em.entry
            /\ em.done => Len(inv) = Len(em.regs)

\* an emit has ended whose first listener threw and whose second listener
\* unsubscribed the third: all three were invoked
C8_Witness ==
    /\ Len(emits) = 1
    /\ emits[1].done
    /\ Len(emits[1].regs) = 3
    /\ emits[1].regs[1].h = "thrower"
    /\ emits[1].regs[2].h = "remover"
    /\ emits[1].regs[3].h = "plain"
    /\ Len(invocations) = 3
    /\ listeners.at[emits[1].e] = <<emits[1].regs[1], emits[1].regs[2]>>

\* C9: no call of on, off, an unsubscribe function or emit throws to its
\* caller, whatever the event name.
C9_NeverThrows == thrown = <<>>

\* C10: calling the unsubscribe function returned by the k-th on() removes
\* registration k and no other: every other registration, also one of the
\* same listener under the same name, remains.
C10_RemovesExactlyOne ==
    [][\A k \in 1..MaxRegs :
          unsubscribe(k) => RegsOf(listeners') = RegsOf(listeners) \ {k}]_vars

\* C11 (unsubscribe is idempotent): invoking again an unsubscribe function
\* that has been invoked before leaves the listener registry as it was,
\* whatever on, off, unsubscribe and emit calls came in between.
C11_Idempotent ==
    [][\A k \in 1..MaxRegs :
          (unsubscribe(k) /\ unsubs[k].called) => listeners' = listeners]_vars

\* C16 (emission order): every registration is invoked with the entries in
\* the order in which the emit calls were made, also when a listener calls
\* emit for the same name while an emit is delivering.
C16_EmissionOrder ==
    \A a \in 1..Len(invocations) : \A b \in a..Len(invocations) :
        invocations[a].reg = invocations[b].reg =>
            invocations[a].emit <= invocations[b].emit

-----------------------------------------------------------------------------
(* Properties of the automation executor: logging and results *)

\* C12 (log-sink isolation): whatever the log sink does, a run that was
\* triggered is awaiting a capability call, or has ended at a failed
\* validation, credentials check or step, or has ended successfully with
\* every step executed and the output of the last step displayed; no run
\* ends otherwise, and none ends with the component left loading.
C12_SinkIsolation ==
    \A r \in RunIds :
        LET run == runs[r]
        IN  run.pc # "idle" =>
               \/ run.pc = "await"
               \/ run.result \in {"rejected", "failed"}
               \/ /\ run.result = "success"
                  /\ Len(run.calls) = Len(run.steps)
                  /\ \A k \in 1..Len(run.calls) : run.calls[k].status = "ok"
                  /\ run.shown = <<run.calls[Len(run.calls)].output>>

\* C13 (result): a run whose steps all succeed passes to
\* setAutomationOutput exactly the output of its last step, and when no
\* other run was started that output is what the component displays.
C13_Result ==
    \A r \in RunIds :
        LET run == runs[r]
        IN  run.result = "success" =>
               /\ run.calls # <<>>
               /\ run.shown = <<run.calls[Len(run.calls)].output>>
               /\ nStarted = 1 =>
                     automationOutput = run.calls[Len(run.calls)].output

\* a run of two steps succeeded; the steps' outputs differ and the second
\* one is displayed
C13_Witness ==
    \E r \in RunIds :
        /\ runs[r].result = "success"
        /\ Len(runs[r].calls) = 2
        /\ runs[r].calls[1].output = Txt
        /\ runs[r].calls[2].output = Img
        /\ automationOutput = Img
        /\ ~isLoading

\* C14 (no partial results): a run that failed has passed nothing to
\* setAutomationOutput, and the component displays no output unless it is
\* the final output of another run, which succeeded.
C14_NoPartialResults ==
    \A r \in RunIds :
        LET run == runs[r]
        IN  run.result = "failed" =>
               /\ run.shown = <<>>
               /\ \/ automationOutput = <<>>
                  \/ \E q \in RunIds \ {r} :
                        /\ runs[q].result = "success"
                        /\ runs[q].shown = <<automationOutput>>

\* a run failed at its second step after its first step had produced an
\* output: the error is displayed and no output is
C14_Witness ==
    \E r \in RunIds :
        /\ runs[r].result = "failed"
        /\ Len(runs[r].calls) = 2
        /\ runs[r].calls[1].status = "ok"
        /\ runs[r].calls[1].output = Txt
        /\ runs[r].calls[2].status = "failed"
        /\ automationOutput = <<>>
        /\ error = FailedToRunMsg(runs[r].err)
        /\ ~isLoading

\* the underlying failure message: the last part of the Error thrown
Cause(run) == run.err[Len(run.err)]

\* the run ended in its catch block because the capability call of its
\* last step was rejected
CapabilityFailed(run) ==
    /\ run.result = "failed"
    /\ run.calls # <<>>
    /\ run.calls[Len(run.calls)].status = "failed"
    /\ Cause(run) \in Causes

\* C17: when the capability call of a step has failed, the log sink had
\* been handed an error-level entry whose details carry the underlying
\* failure message before the run surfaced the failure (called setError).
C17_ErrorLogFirst ==
    \A r \in RunIds :
        LET run == runs[r]
        IN  CapabilityFailed(run) =>
               \E j \in 1..run.errorAt :
                  /\ debugLogs[j].level = "error"
                  /\ \E t \in 1..Len(debugLogs[j].details) :
                        debugLogs[j].details[t] = Cause(run)

\* C18: when the capability call of step k has failed, the error of the
\* run names step k (by its index or its number) and the action id of the
\* step, and wraps the underlying cause.
C18_ErrorIdentifiesStep ==
    \A r \in RunIds :
        LET run == runs[r]
            call == run.calls[Len(run.calls)]
        IN  CapabilityFailed(run) =>
               /\ \E t \in 1..Len(run.err) :
                     run.err[t] \in {IndexNo(call.step), StepNo(call.step)}
               /\ \E t \in 1..Len(run.err) : run.err[t] = call.actionId
               /\ error = FailedToRunMsg(run.err)

\* the entries the sink was handed by runAutomation itself: not those of
\* generateTextContent, nor the one of App's onActionComplete
ExecutorEntries ==
    SelectSeq(debugLogs,
              LAMBDA entry : entry.id.prefix = "automation-")

\* C19 (log sequence of a successful run): the only run started, of N
\* steps that all succeeded, has handed the sink 2N+1 entries of its own:
\* for each step in order a step-start entry and a step-completion entry,
\* both at level automation_step, and then one success entry.
C19_LogSequence ==
    \A r \in RunIds :
        LET run == runs[r]
            n == Len(run.steps)
            ee == ExecutorEntries
        IN  (run.result = "success" /\ nStarted = 1) =>
               /\ Len(ee) = 2 * n + 1
               /\ \A k \in 1..n :
                     /\ ee[2 * k - 1].level = "automation_step"
                     /\ ee[2 * k - 1].message[1] = "Executing step "
                     /\ ee[2 * k - 1].message[2] = StepNo(k - 1)
                     /\ ee[2 * k].level = "automation_step"
                     /\ ee[2 * k].message = <<"Step ", StepNo(k - 1), " completed.">>
               /\ ee[2 * n + 1].message[Len(ee[2 * n + 1].message)] =
                     "\" finished successfully."

\* C20 (payload kind): after every step that succeeded, isInputImage holds
\* iff the output of that step begins with the image-data marker
\* 'data:image/'.
C20_PayloadKind ==
    \A r \in RunIds :
        LET run == runs[r]
        IN  run.i >= 1 =>
               /\ Len(run.calls) >= run.i
               /\ run.calls[run.i].status = "ok"
               /\ run.isInputImage = IsImagePayload(run.calls[run.i].output)

\* the first step answered with an image data URL and the second with
\* text: the payload was reclassified as image and then as text again
C20_Witness ==
    \E r \in RunIds :
        /\ runs[r].i = 2
        /\ runs[r].calls[1].output = Img
        /\ runs[r].calls[2].output = Txt
        /\ ~runs[r].isInputImage
        /\ Len(runs[r].steps) = 3
        /\ runs[r].pc = "await"

\* what the component displays when the run, executing alone, has ended
AloneReport(run) ==
    IF run.result = "success"
    THEN [automationOutput |-> run.calls[Len(run.calls)].output,
          error |-> NoError, isLoading |-> FALSE]
    ELSE [automationOutput |-> <<>>,
          error |-> IF IncludesApiKeyPhrase(run.err)
                    THEN ApiKeyMsg
                    ELSE FailedToRunMsg(run.err),
          isLoading |-> FALSE]

\* C15 (concurrent runs do not interfere): whatever other runs are in
\* flight, every step of a run received the input it would have received
\* with the run executing alone, and when the run ends the component's
\* automationOutput, error and isLoading are what they would be then.
C15_NoInterference ==
    [][\A r \in RunIds :
          (runs[r].pc # "done" /\ runs'[r].pc = "done"
             /\ runs'[r].result \in {"success", "failed"}) =>
             /\ \A k \in 1..Len(runs'[r].calls) :
                   runs'[r].calls[k].payload =
                       IF k = 1 THEN runs'[r].input
                       ELSE runs'[r].calls[k - 1].output
             /\ [automationOutput |-> automationOutput', error |-> error',
                 isLoading |-> isLoading'] = AloneReport(runs'[r])]_vars

-----------------------------------------------------------------------------
(* Run again after an edit: the builder holds a one-step pipeline and an   *)
(* input, and between two clicks of Run the input is retyped.              *)

RetryPipeline == <<[actionId |-> "summarize", emojiMode |-> FALSE]>>

InitRetry == InitWith(RetryPipeline, PaddedTxt, "handleLogDebug")

NextRetry ==
    \/ \E value \in InputValues : setInitialAutomationInputWhile(TRUE, value)
    \/ handleRunAutomationWithin(MaxConcurrentRuns)
    \/ \E r \in RunIds, text \in ModelTexts : Resolve(r, text)
    \/ \E r \in RunIds : ResolveNoText(r)
    \/ \E r \in RunIds, cause \in Causes : RejectCall(r, cause)

RetrySpec == InitRetry /\ [][NextRetry]_vars

\* C21 (credentials flag): whenever an error is displayed and no run is in
\* flight, isApiKeyMissing is true exactly when the displayed error is the
\* credentials-missing one; a generic failure never leaves the flag set
C21_FlagMatchesError ==
    (error # NoError /\ ~isLoading) => (isApiKeyMissing <=> error = ApiKeyMsg)

-----------------------------------------------------------------------------
(* The clock.  Every id is a template string around one reading of         *)
(* Date.now(); in ClockSpec time passes between the steps of a run.        *)

\* Date.now() moves on by a millisecond
tick ==
    /\ now < MaxNow
    /\ now' = now + 1
    /\ UNCHANGED <<execVars, busVars, viewer>>

InitClock == InitWith(ConcurrentPipeline, PaddedTxt, "handleLogDebug")

NextClock ==
    \/ tick
    \/ handleRunAutomation
    \/ \E r \in RunIds, text \in ModelTexts : Resolve(r, text)
    \/ \E r \in RunIds : ResolveNoText(r)
    \/ \E r \in RunIds, cause \in Causes : RejectCall(r, cause)

ClockSpec == InitClock /\ [][NextClock]_vars

\* C22 (unique log ids): any two entries held in the log buffer, at
\* different positions, have different ids
C22_UniqueIds ==
    \A a, b \in 1..Len(debugLogs) :
        a # b => debugLogs[a].id # debugLogs[b].id

-----------------------------------------------------------------------------
(* App and its log viewer.  App keeps the log buffer and renders the       *)
(* component of the active action with the buffer as the debugLogs prop.   *)
(* Every component App renders is given onLogDebug, so none publishes on   *)
(* the bus and the viewer's own subscription receives nothing.             *)

\* the action buttons explored: the one that renders DebuggingTools
NavActions == {"debugging-tools"}

\* `${action.name} (${action.id})` of the catalogue entry
ActionTitle(action) == <<"Debugging & Developer Tools", " (", action, ")">>

\* the entry handleActionClick hands to handleLogDebug when the clock reads t
ActionSelectEntry(action, t) ==
    LogEntry(DebugId("ui-action-select-", t), "ui_event",
             <<"User selected action: ">> \o ActionTitle(action), <<>>)

\* DebuggingTools rendered with `logs` as its debugLogs prop: on mount
\* useState(initialDebugLogs), and after a render in which the prop changed
\* the effect setDebugLogs(initialDebugLogs)
Render(v, logs) ==
    IF v.mounted
    THEN [v EXCEPT !.debugLogs = logs]
    ELSE [mounted |-> TRUE, debugLogs |-> logs, clearedAt |-> -1]

\* App.handleActionClick, a millisecond or more after the event before it:
\* the action becomes the active one and the click is logged
handleActionClick(action) ==
    /\ now < MaxClicks
    /\ now' = now + 1
    /\ debugLogs' = handleLogDebug(debugLogs, ActionSelectEntry(action, now'))
    /\ viewer' = Render(viewer, debugLogs')
    /\ UNCHANGED <<steps, initialAutomationInput, automationOutput, isLoading,
                   error, isApiKeyMissing, envKey, lsKey, runs, nStarted,
                   onLogDebug>>
    /\ UNCHANGED busVars

\* DebuggingTools.clearLogs: setDebugLogs([]) on the component's own state.
\* clearedAt keeps the reading of the clock at the latest call
clearLogs ==
    /\ viewer.mounted
    /\ viewer' = [viewer EXCEPT !.debugLogs = <<>>, !.clearedAt = now]
    /\ UNCHANGED <<execVars, busVars, now>>

NextLogViewer ==
    \/ \E action \in NavActions : handleActionClick(action)
    \/ clearLogs

LogViewerSpec == InitBus /\ [][NextLogViewer]_vars

\* the number of entries App's buffer holds after n were delivered
Held(n) == IF n < 50 THEN n ELSE 50

\* C23 (rolling buffer): App's buffer never holds more than 50 entries, and
\* after n delivered entries it holds exactly the latest min(n, 50) of
\* them, in the order they were delivered
C23_RollingBuffer ==
    /\ Len(debugLogs) <= 50
    /\ debugLogs = [k \in 1..Held(now) |->
                      ActionSelectEntry("debugging-tools", now - Held(now) + k)]

\* more than 50 entries were delivered and the oldest ones were dropped
C23_Witness ==
    /\ now = 52
    /\ Len(debugLogs) = 50
    /\ debugLogs[1].id.at = 3
    /\ debugLogs[50].id.at = 52

\* C30 (clear is final): once clearLogs was called, the viewer shows no
\* entry that was logged before that call
C30_ClearedStayCleared ==
    (viewer.mounted /\ viewer.clearedAt >= 0)
        => \A k \in 1..Len(viewer.debugLogs) :
              viewer.debugLogs[k].id.at > viewer.clearedAt

-----------------------------------------------------------------------------
(* Properties of the builder *)

\* C24 (step cap): whatever addStep, removeStep and updateStep calls were
\* made, the pipeline being built holds at most 3 steps
C24_StepCap == Len(steps) <= 3

\* the pipeline is full, and its last step was given an action
C24_Witness == Len(steps) = 3 /\ steps[3].actionId = "social-commenter"

-----------------------------------------------------------------------------
(* Outputs around the preview length: a pipeline of three text actions is  *)
(* run, and the model answers with texts of 99, 100, 101 and 130           *)
(* characters.                                                             *)

RECURSIVE Repeat(_, _)
Repeat(c, n) == IF n = 0 THEN <<>> ELSE <<c>> \o Repeat(c, n - 1)

PreviewTexts ==
    {Repeat("a", 99), Repeat("a", 100), Repeat("a", 100) \o <<"b">>,
     Repeat("a", 100) \o Repeat("b", 30)}

PreviewPipeline ==
    <<[actionId |-> "summarize", emojiMode |-> FALSE],
      [actionId |-> "summarize", emojiMode |-> FALSE],
      [actionId |-> "summarize", emojiMode |-> FALSE]>>

InitPreview == InitWith(PreviewPipeline, PaddedTxt, "handleLogDebug") /\ envKey

NextPreview ==
    \/ handleRunAutomation
    \/ \E r \in RunIds, text \in PreviewTexts : Resolve(r, text)
    \/ \E r \in RunIds : ResolveNoText(r)
    \/ \E r \in RunIds, cause \in Causes : RejectCall(r, cause)

PreviewSpec == InitPreview /\ [][NextPreview]_vars

\* the preview the claim describes
CutAt100(output) ==
    IF Len(output) <= 100
    THEN output
    ELSE SubSeq(output, 1, 100) \o <<".", ".", ".">>

\* the "Step k completed." entries
IsCompletedEntry(entry) ==
    /\ Len(entry.message) = 3
    /\ entry.message[1] = "Step "
    /\ entry.message[3] = " completed."

\* C25 (preview truncation): the preview logged when a step completes is
\* the output itself when the output has at most 100 characters, and
\* otherwise its first 100 characters followed by "..."; every completed
\* step has such an entry
C25_Preview ==
    /\ \A j \in 1..Len(debugLogs) :
          IsCompletedEntry(debugLogs[j]) =>
             \E r \in RunIds : \E k \in 1..Len(runs[r].calls) :
                /\ runs[r].calls[k].status = "ok"
                /\ debugLogs[j].message[2] = StepNo(k - 1)
                /\ debugLogs[j].details = CutAt100(runs[r].calls[k].output)
    /\ \A r \in RunIds : \A k \in 1..Len(runs[r].calls) :
          runs[r].calls[k].status = "ok" =>
             \E j \in 1..Len(debugLogs) :
                /\ IsCompletedEntry(debugLogs[j])
                /\ debugLogs[j].message[2] = StepNo(k - 1)
                /\ debugLogs[j].details = CutAt100(runs[r].calls[k].output)

\* one run logged an uncut preview of 100 characters and a cut one of an
\* output of 101
C25_Witness ==
    /\ Len(runs[1].calls) >= 2
    /\ Len(runs[1].calls[1].output) = 100
    /\ Len(runs[1].calls[2].output) = 101
    /\ runs[1].calls[2].status = "ok"
    /\ \E j \in 1..Len(debugLogs) :
          /\ IsCompletedEntry(debugLogs[j])
          /\ debugLogs[j].details = runs[1].calls[1].output
    /\ \E j \in 1..Len(debugLogs) :
          /\ IsCompletedEntry(debugLogs[j])
          /\ Len(debugLogs[j].details) = 103

-----------------------------------------------------------------------------
(* Properties of the credentials check *)

\* the run was turned away by runAutomation's own check of the key
RejectedForKey(run) ==
    run.result = "failed" /\ run.err = ApiKeyMsg /\ run.calls = <<>>

\* C26 (one credentials check): a run that passed validation is turned away
\* as "API Key missing" exactly when getGeminiClient would find no key,
\* neither in localStorage nor in process.env
C26_ChecksAgree ==
    \A r \in RunIds :
        (runs[r].pc = "done" /\ runs[r].result \in {"success", "failed"})
            => (RejectedForKey(runs[r]) <=> ~runs[r].credentials)

-----------------------------------------------------------------------------
(* Termination.  The builder holds a pipeline of three steps and an input; *)
(* every capability call of a run settles: its promise resolves or         *)
(* rejects.                                                                *)

\* the step the builder makes of a choice in the <select>
StepOf(value) == [actionId |-> value, emojiMode |-> FALSE]

\* pipelines that succeed, that hold an unknown action, and that hand a
\* payload of the wrong kind to a step
LivePipelines ==
    {<<StepOf("summarize"), StepOf("social-commenter"), StepOf("summarize")>>,
     <<StepOf("summarize"), StepOf(""), StepOf("summarize")>>,
     <<StepOf("social-commenter"), StepOf("vision-integration"), StepOf("summarize")>>,
     <<StepOf("vision-integration"), StepOf("summarize"), StepOf("summarize")>>}

InitLive ==
    \E built \in LivePipelines, typed \in {PaddedTxt, Img} :
        InitWith(built, typed, "handleLogDebug")

\* the pending capability call of run r settles
Settle(r) ==
    \/ \E text \in ModelTexts : Resolve(r, text)
    \/ ResolveNoText(r)
    \/ \E cause \in Causes : RejectCall(r, cause)

NextLive ==
    \/ handleRunAutomation
    \/ \E r \in RunIds : Settle(r)

\* a capability call of some run is pending
Pending == \E r \in RunIds : runs[r].pc = "await"

\* a settle step is possible exactly while a call is pending
PendingIsEnabled == Pending <=> ENABLED <<\E r \in RunIds : Settle(r)>>_vars

\* every capability call settles: weak fairness of the settle steps,
\* WF_vars(\E r \in RunIds : Settle(r)), with ENABLED written as the state
\* predicate it equals.  A run makes finitely many calls, so the runs in
\* flight cannot keep one another from settling
CallsSettle ==
    \/ []<>(~Pending)
    \/ []<><<\E r \in RunIds : Settle(r)>>_vars

LiveSpec == InitLive /\ [][NextLive]_vars /\ CallsSettle

NoRunInFlight == \A r \in RunIds : runs[r].pc \in {"idle", "done"}

\* C27 (termination): the runs that await a capability call all end, and
\* whenever no run is in flight isLoading is false, whether the runs
\* succeeded, failed at a step or were turned away for the missing key
C27_Terminates ==
    /\ (~NoRunInFlight) ~> (NoRunInFlight /\ ~isLoading)
    /\ [](NoRunInFlight => ~isLoading)

\* a run failed at its second step and left isLoading false
C27_Witness ==
    /\ runs[1].pc = "done"
    /\ runs[1].result = "failed"
    /\ Len(runs[1].calls) = 2
    /\ ~isLoading

-----------------------------------------------------------------------------
(* Properties of the log of a run *)

\* the entries with which runAutomation ends a run
IsFinishedEntry(entry) ==
    /\ entry.level = "info"
    /\ entry.message[Len(entry.message)] = "\" finished successfully."

IsFailureEntry(entry) ==
    /\ entry.level = "error"
    /\ \/ entry.message[Len(entry.message)] = "\" failed."
       \/ entry.message = <<"Automation failed: API Key missing.">>

IsTerminalEntry(entry) == IsFinishedEntry(entry) \/ IsFailureEntry(entry)

\* C28 (one terminal entry): the only run started, once it passed
\* validation, has logged no terminal entry while it is in flight, and
\* when it has ended exactly one, which is the last entry runAutomation
\* logged: the "finished successfully" one of a success, an error one of a
\* failure
C28_OneTerminalEntry ==
    nStarted = 1 =>
        LET run == runs[1]
            own == ExecutorEntries
            terminal == SelectSeq(own, IsTerminalEntry)
        IN  /\ run.pc = "await" => terminal = <<>>
            /\ (run.pc = "done" /\ run.result \in {"success", "failed"}) =>
                  /\ Len(terminal) = 1
                  /\ IsTerminalEntry(own[Len(own)])
                  /\ run.result = "success" <=> IsFinishedEntry(terminal[1])
                  /\ run.result = "failed" <=> IsFailureEntry(terminal[1])

\* a run failed at a rejected call of its second step: the error entry of
\* generateTextContent precedes the one terminal entry of the run
C28_Witness ==
    /\ nStarted = 1
    /\ runs[1].result = "failed"
    /\ Len(runs[1].calls) = 2
    /\ Len(debugLogs) >= 2
    /\ debugLogs[Len(debugLogs) - 1].message = <<"generateContent failed">>
    /\ IsFailureEntry(debugLogs[Len(debugLogs)])

-----------------------------------------------------------------------------
(* Registry changes during a publish: the listeners registered under       *)
(* "debugLog" are plain ones, ones that unsubscribe the plain listener and *)
(* ones that subscribe it.                                                 *)

RegistryHandlers == {"plain", "remover", "adder"}

NextRegistry ==
    \/ \E h \in RegistryHandlers : onWithin(MaxSubs, "debugLog", h)
    \/ \E entry \in Entries : emit("debugLog", entry)
    \/ deliverWithin(MaxSubs)
    \/ return

RegistrySpec == InitBus /\ [][NextRegistry]_vars

\* the registrations emit call m found when it was called
RegsAtCall(m) == {emits[m].regs[k].reg : k \in 1..Len(emits[m].regs)}

\* the registrations held under the name of emit call m that were made
\* after it was called
AddedSince(m) ==
    {listeners.at[emits[m].e][k].reg : k \in 1..Len(listeners.at[emits[m].e])}
        \ RegsAtCall(m)

\* C29 (registry changes during a publish): an emit call invokes no
\* listener that was subscribed while it ran, and when it has ended it has
\* invoked every listener registered when it was called, also one that an
\* earlier listener unsubscribed meanwhile; a subscription made by the
\* last listener is in the registry the next emit reads
C29_RegistryChangesDeferred ==
    \A m \in 1..Len(emits) :
        LET inv == InvocationsOf(m)
        IN  /\ \A j \in 1..Len(inv) : inv[j].reg \in RegsAtCall(m)
            /\ emits[m].done =>
                  /\ \A reg \in RegsAtCall(m) :
                        \E j \in 1..Len(inv) : inv[j].reg = reg
                  /\ (inv # <<>> /\ inv[Len(inv)].h = "adder") =>
                        AddedSince(m) # {}

\* an emit has ended whose first listener unsubscribed the second and whose
\* third listener subscribed a fourth: the second was invoked, the fourth
\* was not, and the fourth is registered
C29_Witness ==
    /\ Len(emits) = 1
    /\ emits[1].done
    /\ Len(emits[1].regs) = 3
    /\ emits[1].regs[1].h = "remover"
    /\ emits[1].regs[2].h = "plain"
    /\ emits[1].regs[3].h = "adder"
    /\ Len(invocations) = 3
    /\ invocations[2].reg = emits[1].regs[2].reg
    /\ Len(listeners.at["debugLog"]) = 3
    /\ listeners.at["debugLog"][3].h = "plain"
    /\ listeners.at["debugLog"][3].reg = 4

====
